---- MODULE Spec2Model ----
(***************************************************************************)
(* Order / payment lifecycle of the storefront: cart validation            *)
(* (routes/cart.js), checkout creation (routes/cart.js), the Stripe        *)
(* webhook handlers (routes/webhook.js) and the order routes               *)
(* (routes/orders.js), over a shared catalog of products and orders.       *)
(*                                                                         *)
(* Money.  JavaScript numbers are modelled as exact decimals.  Unrounded   *)
(* amounts (catalog prices, the running subtotal, tax, total) are integers *)
(* counting 1/100000 of a currency unit, so that a price may carry a       *)
(* fraction of a cent and 8% of any subtotal is still an integer.  Amounts *)
(* that went through Math.round(x * 100) / 100 are integers counting       *)
(* cents.  Binary floating-point representation error is not modelled.     *)
(*                                                                         *)
(* Atomicity.  Every database call is atomic.  A handler that reads one    *)
(* order, changes it and saves it is one step.  The stock loop of          *)
(* handleCheckoutSessionCompleted is split at its awaits: reading a        *)
(* product (Product.findById) and writing it back (product.save) are       *)
(* separate steps, so handlers running for different webhook requests      *)
(* interleave between them.                                                *)
(***************************************************************************)
EXTENDS Integers, Sequences, FiniteSets, TLC

VARIABLES
    products,   \* Catalog Store: product id -> product document
    orders,     \* Order Ledger: sequence of order documents, index = order id
    procs,      \* webhook handlers in flight: slot -> position in the stock loop
    req,        \* the request being answered
    resp,       \* the response to req
    decs        \* history: per order, number of stock decrements applied per line

vars == <<products, orders, procs, req, resp, decs>>

(***************************************************************************)
(* Bounds of the model                                                     *)
(***************************************************************************)
MaxStock == 3
MaxQty == 2
MaxCartLen == 2
MaxDeliveries == 2
MaxHistory == 2

(***************************************************************************)
(* Program constants                                                       *)
(***************************************************************************)
MaxQuantity == 10
TaxPercent == 8
FreeShippingFrom == 50
ShippingFee == 999

ProductIds == {1, 2}
Users == {"alice", "bob"}

\* one currency unit, in the unit of unrounded amounts
Unit == 1000 * 100

(***************************************************************************)
(* Catalog Store                                                           *)
(***************************************************************************)
Variant(s, d, n) == [size |-> s, design |-> d, stock |-> n]

Product(a, t, p, vs) ==
    [exists |-> TRUE, active |-> a, title |-> t, price |-> p, variants |-> vs]

NoProduct ==
    [exists |-> FALSE, active |-> FALSE, title |-> "", price |-> 0, variants |-> <<>>]

\* a find that compares the size only
FindVariantFromBySize(vs, s, d, i) ==
    LET F[k \in 1..(Len(vs) + 1)] ==
            IF k > Len(vs) THEN 0
            ELSE IF vs[k].size = s THEN k
            ELSE F[k + 1]
    IN F[i]

\* Array.prototype.find over product.variants: index of the first variant
\* with the same size and the same design, 0 when there is none
FindVariantFrom(vs, s, d, i) ==
    LET F[k \in 1..(Len(vs) + 1)] ==
            IF k > Len(vs) THEN 0
            ELSE IF vs[k].size = s /\ vs[k].design = d THEN k
            ELSE F[k + 1]
    IN F[i]

FindVariant(vs, s, d) == FindVariantFrom(vs, s, d, 1)

(***************************************************************************)
(* Cart Validator: POST /cart/validate                                     *)
(***************************************************************************)
\* a client line item; price and title are what the client claims, the
\* server does not read them
CartLine(p, s, d, q, cp, ct) ==
    [productId |-> p, size |-> s, design |-> d, quantity |-> q,
     price |-> cp, title |-> ct]

\* Math.round(x * 100) / 100 of a non-negative unrounded amount, in cents
Round2(x) == (x + 500) \div 1000

Tax(subtotal) == (subtotal * TaxPercent) \div 100

Shipping(subtotal) ==
    IF subtotal >= FreeShippingFrom * Unit THEN 0 ELSE ShippingFee * 1000

\* express-validator chain of the route: a non-empty array whose
\* quantities are integers of 1..10
WellFormed(items) ==
    /\ Len(items) >= 1
    /\ \A i \in 1..Len(items) :
          items[i].quantity >= 1 /\ items[i].quantity <= MaxQuantity

\* a validated item that keeps the price and title the client sent
ValidatedItemTrusting(cat, line, v) ==
    [product |-> line.productId,
     title |-> line.title,
     price |-> line.price,
     quantity |-> line.quantity,
     size |-> v.size,
     design |-> v.design]

ValidatedItem(cat, line, v) ==
    [product |-> line.productId,
     title |-> cat[line.productId].title,
     price |-> cat[line.productId].price,
     quantity |-> line.quantity,
     size |-> v.size,
     design |-> v.design]

Failure(kind, line, available) ==
    [code |-> 400, error |-> kind, line |-> line, available |-> available,
     items |-> <<>>, subtotal |-> 0, tax |-> 0, shipping |-> 0, total |-> 0]

CartTotals(validatedItems, subtotal) ==
    [code |-> 200, error |-> "", line |-> 0, available |-> 0,
     items |-> validatedItems,
     subtotal |-> Round2(subtotal),
     tax |-> Round2(Tax(subtotal)),
     shipping |-> Round2(Shipping(subtotal)),
     total |-> Round2(subtotal + Tax(subtotal) + Shipping(subtotal))]

\* the for loop over the items, then the totals
ValidateCart(cat, items) ==
    LET Loop[i \in 1..(Len(items) + 1)] ==
            \* <<validatedItems, subtotal>> after the first i - 1 lines, or
            \* the failure response of the first line that failed
            IF i = 1 THEN [ok |-> TRUE, items |-> <<>>, subtotal |-> 0,
                           failure |-> Failure("", 0, 0)]
            ELSE
              LET prev == Loop[i - 1]
                  line == items[i - 1]
                  product == IF line.productId \in DOMAIN cat
                             THEN cat[line.productId] ELSE NoProduct
                  k == FindVariant(product.variants, line.size, line.design)
              IN  IF ~prev.ok THEN prev
                  ELSE IF ~product.exists \/ ~product.active
                  THEN [prev EXCEPT !.ok = FALSE,
                            !.failure = Failure("ProductUnavailable", i - 1, 0)]
                  ELSE IF k = 0
                  THEN [prev EXCEPT !.ok = FALSE,
                            !.failure = Failure("VariantUnavailable", i - 1, 0)]
                  ELSE IF product.variants[k].stock < line.quantity
                  THEN [prev EXCEPT !.ok = FALSE,
                            !.failure = Failure("InsufficientStock", i - 1,
                                                product.variants[k].stock)]
                  ELSE [prev EXCEPT
                            !.items = Append(@, ValidatedItem(cat, line,
                                                    product.variants[k])),
                            !.subtotal = @ + product.price * line.quantity]
        final == Loop[Len(items) + 1]
    IN  IF ~WellFormed(items) THEN Failure("ValidationFailed", 0, 0)
        ELSE IF ~final.ok THEN final.failure
        ELSE CartTotals(final.items, final.subtotal)

(***************************************************************************)
(* Order Ledger                                                            *)
(***************************************************************************)
Statuses == {"pending", "confirmed", "processing", "shipped", "delivered", "cancelled"}

\* an order that carries a payment reference from its creation
NewOrderWithReference(user, cart) ==
    [user |-> user,
     items |-> cart.items,
     subtotal |-> cart.subtotal,
     tax |-> cart.tax,
     shipping |-> cart.shipping,
     total |-> cart.total,
     payStatus |-> "pending",
     amount |-> cart.total,
     sessionId |-> "",
     paymentIntent |-> 1,
     status |-> "pending",
     history |-> <<>>]

\* new Order({...}) in create-checkout-session; status starts "pending"
NewOrder(user, cart) ==
    [user |-> user,
     items |-> cart.items,
     subtotal |-> cart.subtotal,
     tax |-> cart.tax,
     shipping |-> cart.shipping,
     total |-> cart.total,
     payStatus |-> "pending",
     amount |-> cart.total,
     sessionId |-> "",
     paymentIntent |-> 0,
     status |-> "pending",
     history |-> <<>>]

\* a lookup that falls back on the latest order
FindOrderByIdOrLast(ords, id) == IF id \in 1..Len(ords) THEN id ELSE Len(ords)

\* Order.findById: the order id when an order is stored under it, else 0
FindOrderById(ords, id) == IF id \in 1..Len(ords) THEN id ELSE 0

\* Order.findOne({'paymentInfo.stripePaymentIntentId': pi}): the first
\* stored order carrying that payment reference, else 0
FindOrderByPaymentIntent(ords, pi) ==
    LET F[k \in 1..(Len(ords) + 1)] ==
            IF k > Len(ords) THEN 0
            ELSE IF ords[k].paymentIntent = pi THEN k
            ELSE F[k + 1]
    IN F[1]

\* the order of that id, whoever placed it
FindOrderOfAnyUser(ords, id, user) ==
    IF id \in 1..Len(ords) THEN id ELSE 0

\* Order.findOne({_id: id, user: user})
FindOrderOfUser(ords, id, user) ==
    IF id \in 1..Len(ords) /\ ords[id].user = user THEN id ELSE 0

(***************************************************************************)
(* Requests and responses                                                  *)
(***************************************************************************)
Request(op, user, order, items) ==
    [op |-> op, user |-> user, order |-> order, items |-> items]

NoRequest == Request("", "", 0, <<>>)

Reply(code, error) ==
    [code |-> code, error |-> error, line |-> 0, available |-> 0,
     items |-> <<>>, subtotal |-> 0, tax |-> 0, shipping |-> 0, total |-> 0]

(***************************************************************************)
(* Handlers, as functions of the stored state and the request              *)
(***************************************************************************)
Outcome(cat, ords, reply) == [products |-> cat, orders |-> ords, resp |-> reply]

\* a validation that reserves the first line's quantity when it succeeds
ValidateHandlerReserving(cat, ords, items) ==
    LET cart == ValidateCart(cat, items)
    IN  IF cart.code = 200
        THEN Outcome([cat EXCEPT ![items[1].productId].variants[1].stock =
                                     @ - items[1].quantity], ords, cart)
        ELSE Outcome(cat, ords, cart)

\* POST /cart/validate
ValidateHandler(cat, ords, items) ==
    Outcome(cat, ords, ValidateCart(cat, items))

\* the line items sent to the payment processor: one per cart line at
\* Math.round(item.price * 100) cents, then a tax line and a shipping line
\* when the amount is positive (tax and shipping are already whole cents)
StripeLineItems(cart) ==
    [i \in 1..Len(cart.items) |->
        [unit_amount |-> Round2(cart.items[i].price),
         quantity |-> cart.items[i].quantity]]
    \o (IF cart.tax > 0
        THEN <<[unit_amount |-> cart.tax, quantity |-> 1]>> ELSE <<>>)
    \o (IF cart.shipping > 0
        THEN <<[unit_amount |-> cart.shipping, quantity |-> 1]>> ELSE <<>>)

\* the order written only once the payment session exists
CreateCheckoutSessionSessionFirst(cat, ords, user, items, stripeOk) ==
    LET cart == ValidateCart(cat, items)
        order == NewOrder(user, cart)
    IN  IF cart.code # 200 THEN Outcome(cat, ords, [cart EXCEPT !.code = 400])
        ELSE IF ~stripeOk
        THEN Outcome(cat, ords, Reply(500, "ServerError"))
        ELSE Outcome(cat, Append(ords, [order EXCEPT !.sessionId = "cs"]),
                     Reply(200, ""))

\* the order written before the cart is validated
CreateCheckoutSessionOrderFirst(cat, ords, user, items, stripeOk) ==
    LET cart == ValidateCart(cat, items)
        order == NewOrder(user, cart)
    IN  IF cart.code # 200
        THEN Outcome(cat, Append(ords, order), [cart EXCEPT !.code = 400])
        ELSE IF ~stripeOk
        THEN Outcome(cat, Append(ords, order), Reply(500, "ServerError"))
        ELSE Outcome(cat, Append(ords, [order EXCEPT !.sessionId = "cs"]),
                     Reply(200, ""))

\* POST /cart/create-checkout-session; stripeOk says whether
\* stripe.checkout.sessions.create returned a session
CreateCheckoutSession(cat, ords, user, items, stripeOk) ==
    LET cart == ValidateCart(cat, items)
        order == NewOrder(user, cart)
    IN  IF cart.code # 200 THEN Outcome(cat, ords, [cart EXCEPT !.code = 400])
        ELSE IF ~stripeOk
        THEN Outcome(cat, Append(ords, order), Reply(500, "ServerError"))
        ELSE Outcome(cat, Append(ords, [order EXCEPT !.sessionId = "cs"]),
                     Reply(200, ""))

\* an event taken from the body without verifying the signature
ConstructEventUnverified(signed, kind, id) ==
    [verified |-> TRUE, type |-> kind, id |-> id]

\* stripe.webhooks.constructEvent: the event of the body when the signature
\* header matches it, an exception otherwise
ConstructEvent(signed, kind, id) ==
    [verified |-> signed, type |-> kind, id |-> id]

EventKinds ==
    {"checkout.session.completed", "payment_intent.succeeded",
     "payment_intent.payment_failed", "customer.created"}

\* a handler that moves an order it finds already paid on to processing
CheckoutSessionCompletedSaveAdvancing(ords, id, pi) ==
    LET found == FindOrderById(ords, id)
    IN  IF found = 0 THEN ords
        ELSE [ords EXCEPT ![found].payStatus = "paid",
                          ![found].paymentIntent = pi,
                          ![found].status = IF ords[found].payStatus = "paid"
                                            THEN "processing"
                                            ELSE "confirmed"]

\* handleCheckoutSessionCompleted up to order.save()
CheckoutSessionCompletedSave(ords, id, pi) ==
    LET found == FindOrderById(ords, id)
    IN  IF found = 0 THEN ords
        ELSE [ords EXCEPT ![found].payStatus = "paid",
                          ![found].paymentIntent = pi,
                          ![found].status = "confirmed"]

\* a handler that confirms the order whatever its status
PaymentIntentSucceededConfirming(ords, pi) ==
    LET id == FindOrderByPaymentIntent(ords, pi)
    IN  IF id = 0 THEN ords
        ELSE [ords EXCEPT ![id].payStatus = "paid",
                          ![id].status = "confirmed"]

\* handlePaymentIntentSucceeded
PaymentIntentSucceeded(ords, pi) ==
    LET id == FindOrderByPaymentIntent(ords, pi)
    IN  IF id = 0 THEN ords
        ELSE [ords EXCEPT ![id].payStatus = "paid",
                          ![id].status = IF @ = "pending" THEN "confirmed" ELSE @]

\* a handler that cancels only what a customer could still cancel
PaymentIntentFailedGuarded(ords, pi) ==
    LET id == FindOrderByPaymentIntent(ords, pi)
    IN  IF id = 0 THEN ords
        ELSE [ords EXCEPT ![id].payStatus = "failed",
                          ![id].status = IF @ \in {"pending", "confirmed"}
                                         THEN "cancelled" ELSE @]

\* handlePaymentIntentFailed
PaymentIntentFailed(ords, pi) ==
    LET id == FindOrderByPaymentIntent(ords, pi)
    IN  IF id = 0 THEN ords
        ELSE [ords EXCEPT ![id].payStatus = "failed",
                          ![id].status = "cancelled"]

\* the Order model behind order.save() of an explicit status change: one
\* entry with the order's new status and the note of the request is
\* appended to the status history (the timestamp is left out)
RecordStatusChange(order, note) ==
    [order EXCEPT !.history = Append(@, [status |-> order.status, note |-> note])]

\* POST /orders/admin/:id/notes: an entry with the current status and the
\* note is pushed to the status history
AddOrderNote(cat, ords, id, note) ==
    IF note = "" THEN Outcome(cat, ords, Reply(400, "ValidationFailed"))
    ELSE IF FindOrderById(ords, id) = 0 THEN Outcome(cat, ords, Reply(404, "NotFound"))
    ELSE Outcome(cat,
                 [ords EXCEPT ![id].history =
                     Append(@, [status |-> ords[id].status, note |-> note])],
                 Reply(200, ""))

\* an update that answers without assigning the status
UpdateOrderStatusDropped(cat, ords, id, status) ==
    IF status \notin Statuses THEN Outcome(cat, ords, Reply(400, "ValidationFailed"))
    ELSE IF FindOrderById(ords, id) = 0 THEN Outcome(cat, ords, Reply(404, "NotFound"))
    ELSE Outcome(cat, ords, Reply(200, ""))

\* a route without the validator on the status value
UpdateOrderStatusUnvalidated(cat, ords, id, status) ==
    IF FindOrderById(ords, id) = 0 THEN Outcome(cat, ords, Reply(404, "NotFound"))
    ELSE Outcome(cat, [ords EXCEPT ![id].status = status], Reply(200, ""))

\* PUT /orders/admin/:id/status; the validator admits the six status names
UpdateOrderStatus(cat, ords, id, status) ==
    IF status \notin Statuses THEN Outcome(cat, ords, Reply(400, "ValidationFailed"))
    ELSE IF FindOrderById(ords, id) = 0 THEN Outcome(cat, ords, Reply(404, "NotFound"))
    ELSE Outcome(cat, [ords EXCEPT ![id].status = status], Reply(200, ""))

\* a cart add that takes the quantity out of stock
AddToCartHandlerReserving(cat, ords, p, s, d, q) ==
    LET k == FindVariant(cat[p].variants, s, d)
    IN  IF q \notin 1..MaxQuantity \/ ~cat[p].exists \/ ~cat[p].active \/ k = 0
        THEN Outcome(cat, ords, Reply(400, "ValidationFailed"))
        ELSE IF cat[p].variants[k].stock < q
        THEN Outcome(cat, ords, Reply(400, "InsufficientStock"))
        ELSE Outcome([cat EXCEPT ![p].variants[k].stock = @ - q], ords,
                     Reply(200, ""))

\* POST /cart/add: the line the client puts in its cart, priced from the
\* catalog; nothing is stored on the server
AddToCartHandler(cat, ords, p, s, d, q) ==
    LET k == FindVariant(cat[p].variants, s, d)
    IN  IF q \notin 1..MaxQuantity
        THEN Outcome(cat, ords, Reply(400, "ValidationFailed"))
        ELSE IF ~cat[p].exists \/ ~cat[p].active
        THEN Outcome(cat, ords, Reply(404, "NotFound"))
        ELSE IF k = 0
        THEN Outcome(cat, ords, Reply(400, "VariantUnavailable"))
        ELSE IF cat[p].variants[k].stock < q
        THEN Outcome(cat, ords,
                     [Reply(400, "InsufficientStock")
                         EXCEPT !.available = cat[p].variants[k].stock])
        ELSE Outcome(cat, ords,
                     [Reply(200, "")
                         EXCEPT !.items = <<ValidatedItem(cat,
                                               CartLine(p, s, d, q, 0, ""),
                                               cat[p].variants[k])>>,
                                !.available =
                                    IF cat[p].variants[k].stock < MaxQuantity
                                    THEN cat[p].variants[k].stock
                                    ELSE MaxQuantity])

\* a product update that also rewrites the price kept in stored order lines
UpdateProductCascading(cat, ords, p, title, price, active, hasVariants, variants) ==
    IF title = "" \/ price < 0
    THEN Outcome(cat, ords, Reply(400, "ValidationFailed"))
    ELSE IF ~cat[p].exists
    THEN Outcome(cat, ords, Reply(404, "NotFound"))
    ELSE Outcome([cat EXCEPT ![p] =
                      Product(active, title, price,
                              IF hasVariants THEN variants ELSE cat[p].variants)],
                 [id \in 1..Len(ords) |->
                     [ords[id] EXCEPT !.items =
                         [i \in 1..Len(ords[id].items) |->
                             IF ords[id].items[i].product = p
                             THEN [ords[id].items[i] EXCEPT !.price = price]
                             ELSE ords[id].items[i]]]],
                 Reply(200, ""))

\* PUT /products/admin/:id: title, price and active are overwritten; the
\* variants, stock counts included, are replaced when the form carries a
\* variants field and kept otherwise
UpdateProduct(cat, ords, p, title, price, active, hasVariants, variants) ==
    IF title = "" \/ price < 0
    THEN Outcome(cat, ords, Reply(400, "ValidationFailed"))
    ELSE IF ~cat[p].exists
    THEN Outcome(cat, ords, Reply(404, "NotFound"))
    ELSE Outcome([cat EXCEPT ![p] =
                      Product(active, title, price,
                              IF hasVariants THEN variants ELSE cat[p].variants)],
                 ords, Reply(200, ""))

\* DELETE /products/admin/:id
DeleteProduct(cat, ords, p) ==
    IF ~cat[p].exists THEN Outcome(cat, ords, Reply(404, "NotFound"))
    ELSE Outcome([cat EXCEPT ![p] = NoProduct], ords, Reply(200, ""))

\* a cancellation that puts the first line's quantity back in stock
CancelOrderRestocking(cat, ords, user, id) ==
    IF FindOrderOfUser(ords, id, user) = 0
    THEN Outcome(cat, ords, Reply(404, "NotFound"))
    ELSE IF ords[id].status \notin {"pending", "confirmed"}
    THEN Outcome(cat, ords, Reply(400, "InvalidTransition"))
    ELSE Outcome([cat EXCEPT ![ords[id].items[1].product].variants[1].stock =
                                 @ + ords[id].items[1].quantity],
                 [ords EXCEPT ![id].status = "cancelled"], Reply(200, ""))

\* a cancellation that is still admitted while the order is processing
CancelOrderLate(cat, ords, user, id) ==
    IF FindOrderOfUser(ords, id, user) = 0
    THEN Outcome(cat, ords, Reply(404, "NotFound"))
    ELSE IF ords[id].status \notin {"pending", "confirmed", "processing"}
    THEN Outcome(cat, ords, Reply(400, "InvalidTransition"))
    ELSE Outcome(cat, [ords EXCEPT ![id].status = "cancelled"], Reply(200, ""))

\* PUT /orders/:id/cancel
CancelOrder(cat, ords, user, id) ==
    IF FindOrderOfUser(ords, id, user) = 0
    THEN Outcome(cat, ords, Reply(404, "NotFound"))
    ELSE IF ords[id].status \notin {"pending", "confirmed"}
    THEN Outcome(cat, ords, Reply(400, "InvalidTransition"))
    ELSE Outcome(cat, [ords EXCEPT ![id].status = "cancelled"], Reply(200, ""))

(***************************************************************************)
(* Stock loop of handleCheckoutSessionCompleted                            *)
(***************************************************************************)
Procs == {1, 2}
OrderIds == {1, 2}

Idle == [pc |-> "idle", order |-> 0, line |-> 0, k |-> 0, stock |-> 0]

\* a loop body that lowers the stock without comparing it to the quantity
VariantToDecrementUnguarded(cat, item) ==
    LET product == cat[item.product]
        k == FindVariant(product.variants, item.size, item.design)
    IN  IF product.exists /\ k # 0 THEN k ELSE 0

\* the body of the loop after Product.findById: index of the variant whose
\* stock is to be lowered, 0 when the line is skipped
VariantToDecrement(cat, item) ==
    LET product == cat[item.product]
        k == FindVariant(product.variants, item.size, item.design)
    IN  IF product.exists /\ k # 0 /\ product.variants[k].stock >= item.quantity
        THEN k ELSE 0

\* variant.stock -= item.quantity; product.save(): the stock read by this
\* handler, less the quantity, is written to the variant
SaveStock(cat, item, k, stockRead) ==
    IF cat[item.product].exists /\ k <= Len(cat[item.product].variants)
    THEN [cat EXCEPT ![item.product].variants[k].stock = stockRead - item.quantity]
    ELSE cat

NoDecrements(n) == [deliveries |-> 0, lines |-> [i \in 1..n |-> 0]]

(***************************************************************************)
(* Actions                                                                 *)
(***************************************************************************)
Validate(items) ==
    LET out == ValidateHandler(products, orders, items)
    IN  /\ products' = out.products
        /\ orders' = out.orders
        /\ resp' = out.resp
        /\ req' = Request("validate", "", 0, items)
        /\ UNCHANGED <<procs, decs>>

\* a checkout that takes the first line's quantity out of stock when it
\* stores the order
CheckoutReserving(user, items, stripeOk) ==
    LET out == CreateCheckoutSession(products, orders, user, items, stripeOk)
    IN  /\ products' =
              IF Len(out.orders) > Len(orders)
              THEN [products EXCEPT ![items[1].productId].variants[1].stock =
                                        @ - items[1].quantity]
              ELSE out.products
        /\ orders' = out.orders
        /\ resp' = out.resp
        /\ req' = Request("checkout", user, 0, items)
        /\ decs' = IF Len(out.orders) > Len(orders)
                   THEN Append(decs, NoDecrements(Len(items))) ELSE decs
        /\ UNCHANGED procs

Checkout(user, items, stripeOk) ==
    LET out == CreateCheckoutSession(products, orders, user, items, stripeOk)
    IN  /\ products' = out.products
        /\ orders' = out.orders
        /\ resp' = out.resp
        /\ req' = Request("checkout", user, 0, items)
        /\ decs' = IF Len(out.orders) > Len(orders)
                   THEN Append(decs, NoDecrements(Len(items))) ELSE decs
        /\ UNCHANGED procs

\* POST /webhook/stripe, stripe.webhooks.constructEvent throws
WebhookBadSignature ==
    /\ resp' = Reply(400, "InvalidSignature")
    /\ req' = Request("webhook", "", 0, <<>>)
    /\ UNCHANGED <<products, orders, procs, decs>>

\* the handler of an event of this kind has returned:
\* res.json({received: true})
Received(kind, id) ==
    /\ resp' = Reply(200, "")
    /\ req' = Request(kind, "", id, <<>>)

\* checkout.session.completed for the session of order id, whose payment
\* intent is id: lookup, order.save(), entry into the stock loop.  The
\* processor sends the event only for a session it created.
CheckoutCompletedBegin(slot, id) ==
    LET found == FindOrderById(orders, id)
    IN  /\ procs[slot].pc = "idle"
        /\ IF found = 0
           THEN /\ Received("checkout.session.completed", id)
                /\ UNCHANGED <<products, orders, procs, decs>>
           ELSE /\ orders[found].sessionId # ""
                /\ decs[found].deliveries < MaxDeliveries
                /\ orders' = CheckoutSessionCompletedSave(orders, id, id)
                /\ decs' = [decs EXCEPT ![found].deliveries = @ + 1]
                /\ procs' = [procs EXCEPT ![slot] = [Idle EXCEPT !.pc = "read",
                                                   !.order = found, !.line = 1]]
                /\ UNCHANGED <<products, req, resp>>

\* a loop that ends with the line it has just handled
NextLineReturning(slot) ==
    LET proc == procs[slot]
    IN  /\ procs' = [procs EXCEPT ![slot] = Idle]
        /\ Received("checkout.session.completed", proc.order)

\* the handler of slot moves on to the line after procs[slot].line
NextLine(slot) ==
    LET proc == procs[slot]
    IN  IF proc.line < Len(orders[proc.order].items)
        THEN /\ procs' = [procs EXCEPT ![slot] = [Idle EXCEPT !.pc = "read",
                                   !.order = proc.order, !.line = proc.line + 1]]
             /\ UNCHANGED <<req, resp>>
        ELSE /\ procs' = [procs EXCEPT ![slot] = Idle]
             /\ Received("checkout.session.completed", proc.order)

\* Product.findById(item.product) and the test of the variant's stock
ReadProduct(slot) ==
    LET proc == procs[slot]
        item == orders[proc.order].items[proc.line]
        k == VariantToDecrement(products, item)
    IN  /\ proc.pc = "read"
        /\ IF k # 0
           THEN /\ procs' = [procs EXCEPT ![slot].pc = "write", ![slot].k = k,
                       ![slot].stock = products[item.product].variants[k].stock]
                /\ UNCHANGED <<req, resp>>
           ELSE NextLine(slot)
        /\ UNCHANGED <<products, orders, decs>>

\* variant.stock -= item.quantity; await product.save().  When the product
\* was deleted since it was read, save() throws, the handler's catch logs
\* the error and the handler returns.
WriteProduct(slot) ==
    LET proc == procs[slot]
        item == orders[proc.order].items[proc.line]
    IN  /\ proc.pc = "write"
        /\ products' = SaveStock(products, item, proc.k, proc.stock)
        /\ IF products[item.product].exists
           THEN /\ decs' = [decs EXCEPT ![proc.order].lines[proc.line] = @ + 1]
                /\ NextLine(slot)
           ELSE /\ decs' = decs
                /\ procs' = [procs EXCEPT ![slot] = Idle]
                /\ Received("checkout.session.completed", proc.order)
        /\ UNCHANGED orders

PaymentSucceeded(pi) ==
    /\ orders' = PaymentIntentSucceeded(orders, pi)
    /\ Received("payment_intent.succeeded", pi)
    /\ UNCHANGED <<products, procs, decs>>

PaymentFailed(pi) ==
    /\ orders' = PaymentIntentFailed(orders, pi)
    /\ Received("payment_intent.payment_failed", pi)
    /\ UNCHANGED <<products, procs, decs>>

\* an event kind the switch has no case for: logged, then received
Unhandled(kind) ==
    /\ Received(kind, 0)
    /\ UNCHANGED <<products, orders, procs, decs>>

\* a handler whose first storage call rejects: the handler's own catch logs
\* the error, the handler returns and the route goes on to its answer
HandlerError(kind, id) ==
    /\ kind \in {"checkout.session.completed", "payment_intent.succeeded",
                 "payment_intent.payment_failed"}
    /\ Received(kind, id)
    /\ UNCHANGED <<products, orders, procs, decs>>

\* POST /webhook/stripe: the signature is verified, then the event is
\* dispatched on its type.  id is the order id in the session's metadata,
\* or the payment intent's id.
StripeWebhook(slot, signed, kind, id) ==
    LET event == ConstructEvent(signed, kind, id)
    IN  IF ~event.verified THEN WebhookBadSignature
        ELSE IF event.type = "checkout.session.completed"
        THEN CheckoutCompletedBegin(slot, event.id)
        ELSE IF event.type = "payment_intent.succeeded"
        THEN PaymentSucceeded(event.id)
        ELSE IF event.type = "payment_intent.payment_failed"
        THEN PaymentFailed(event.id)
        ELSE Unhandled(event.type)

AddToCart(p, s, d, q) ==
    LET out == AddToCartHandler(products, orders, p, s, d, q)
    IN  /\ products' = out.products
        /\ orders' = out.orders
        /\ resp' = out.resp
        /\ req' = Request("add", "", 0, <<CartLine(p, s, d, q, 0, "")>>)
        /\ UNCHANGED <<procs, decs>>

\* the admin status route together with the Order model's status history:
\* the order the route has saved gets its history entry
AdminUpdateStatusRecorded(id, status, note) ==
    LET out == UpdateOrderStatus(products, orders, id, status)
    IN  /\ products' = out.products
        /\ orders' = IF out.resp.code = 200
                     THEN [out.orders EXCEPT ![id] = RecordStatusChange(@, note)]
                     ELSE out.orders
        /\ resp' = out.resp
        /\ req' = Request("status", "admin", id, <<>>)
        /\ UNCHANGED <<procs, decs>>

AdminAddNote(id, note) ==
    LET out == AddOrderNote(products, orders, id, note)
    IN  /\ products' = out.products
        /\ orders' = out.orders
        /\ resp' = out.resp
        /\ req' = Request("note", "admin", id, <<>>)
        /\ UNCHANGED <<procs, decs>>

\* the request's order field is 0: it names a product, kept in the line
AdminUpdateProduct(p, title, price, active, hasVariants, variants) ==
    LET out == UpdateProduct(products, orders, p, title, price, active,
                             hasVariants, variants)
    IN  /\ products' = out.products
        /\ orders' = out.orders
        /\ resp' = out.resp
        /\ req' = Request("product", "admin", 0,
                          <<CartLine(p, "", "", 0, price, title)>>)
        /\ UNCHANGED <<procs, decs>>

AdminDeleteProduct(p) ==
    LET out == DeleteProduct(products, orders, p)
    IN  /\ products' = out.products
        /\ orders' = out.orders
        /\ resp' = out.resp
        /\ req' = Request("delete", "admin", 0,
                          <<CartLine(p, "", "", 0, 0, "")>>)
        /\ UNCHANGED <<procs, decs>>

AdminUpdateStatus(id, status) ==
    LET out == UpdateOrderStatus(products, orders, id, status)
    IN  /\ products' = out.products
        /\ orders' = out.orders
        /\ resp' = out.resp
        /\ req' = Request("status", "admin", id, <<>>)
        /\ UNCHANGED <<procs, decs>>

UserCancel(user, id) ==
    LET out == CancelOrder(products, orders, user, id)
    IN  /\ products' = out.products
        /\ orders' = out.orders
        /\ resp' = out.resp
        /\ req' = Request("cancel", user, id, <<>>)
        /\ UNCHANGED <<procs, decs>>

(***************************************************************************)
(* Specification of the order lifecycle: one order, from checkout through  *)
(* webhook deliveries, admin updates and cancellation                      *)
(***************************************************************************)
\* carts of at most n lines drawn from the set lines
Carts(lines, n) == UNION {[1..len -> lines] : len \in 0..n}

\* single lines on the variant of product 1, in every quantity of the model
LifeLines == {CartLine(1, "S", "red", q, 0, "") : q \in 1..MaxQty}

\* the empty cart, the one-line carts, and a cart over both products
LifeCarts ==
    {<<>>} \cup {<<line>> : line \in LifeLines}
           \cup {<<CartLine(2, "S", "red", 1, 0, ""), CartLine(1, "S", "red", 1, 0, "")>>}

Catalog(stock1, stock2) ==
    [p \in ProductIds |->
        IF p = 1
        THEN Product(TRUE, "Classic", 10 * Unit, <<Variant("S", "red", stock1)>>)
        ELSE Product(TRUE, "Glitter", 30 * Unit, <<Variant("S", "red", stock2)>>)]

Init ==
    /\ products = Catalog(MaxStock, 1)
    /\ orders = <<>>
    /\ procs = [slot \in Procs |-> Idle]
    /\ req = NoRequest
    /\ resp = Reply(0, "")
    /\ decs = <<>>

\* the requests of customers and of the payment processor
NextShop ==
    \/ \E items \in LifeCarts : Validate(items)
    \/ \E user \in Users, items \in LifeCarts, stripeOk \in BOOLEAN :
          Len(orders) < 1 /\ Checkout(user, items, stripeOk)
    \/ \E signed \in BOOLEAN, kind \in EventKinds, id \in OrderIds :
          StripeWebhook(1, signed, kind, id)
    \/ ReadProduct(1)
    \/ WriteProduct(1)
    \/ \E user \in Users, id \in OrderIds : UserCancel(user, id)

\* and those of the admin
NextAdmin ==
    \E id \in OrderIds, status \in Statuses \cup {"refunded"} :
        AdminUpdateStatus(id, status)

Next == NextShop \/ NextAdmin

Spec == Init /\ [][Next]_vars

\* the lifecycle while no admin intervenes
SpecShop == Init /\ [][NextShop]_vars

(***************************************************************************)
(* The back office: one customer's order, and the admin editing the        *)
(* catalog and the order while the order lives                             *)
(***************************************************************************)
OfficeCarts ==
    {<<CartLine(1, "S", "red", 1, 0, "")>>,
     <<CartLine(2, "S", "red", 1, 0, ""), CartLine(1, "S", "red", 1, 0, "")>>}

OfficePrices == {10 * Unit, 20 * Unit}

OfficeStatuses == {"shipped"}

NextCatalog ==
    \/ AddToCart(1, "S", "red", 1)
    \/ \E price \in OfficePrices, hasVariants \in BOOLEAN :
          AdminUpdateProduct(1, "Classic", price, TRUE, hasVariants,
                             <<Variant("S", "red", MaxStock)>>)
    \/ \E p \in ProductIds : AdminDeleteProduct(p)

NextOffice ==
    \/ Validate(<<CartLine(1, "S", "red", 1, 0, "")>>)
    \/ \E items \in OfficeCarts :
          Len(orders) < 1 /\ Checkout("alice", items, TRUE)
    \/ \E kind \in EventKinds : StripeWebhook(1, TRUE, kind, 1)
    \/ \E kind \in EventKinds : HandlerError(kind, 1)
    \/ ReadProduct(1)
    \/ WriteProduct(1)
    \/ UserCancel("alice", 1)
    \/ \E status \in OfficeStatuses : AdminUpdateStatus(1, status)
    \/ NextCatalog

SpecOffice == Init /\ [][NextOffice]_vars

(***************************************************************************)
(* The ledger: one order with its status history.  The other               *)
(* specifications leave the status history out: there the admin status     *)
(* route is the route alone.                                               *)
(***************************************************************************)
LedgerStatuses == {"pending", "shipped", "cancelled", "refunded"}

LedgerNotes == {"", "called"}

\* the order, when stored, has room for one more status history entry
HistoryRoom(id) ==
    id \in 1..Len(orders) => Len(orders[id].history) < MaxHistory

NextLedger ==
    \/ /\ Len(orders) < 1
       /\ Checkout("alice", <<CartLine(1, "S", "red", 1, 0, "")>>, TRUE)
    \/ \E kind \in EventKinds : StripeWebhook(1, TRUE, kind, 1)
    \/ ReadProduct(1)
    \/ WriteProduct(1)
    \/ \E status \in LedgerStatuses, note \in LedgerNotes :
          HistoryRoom(1) /\ AdminUpdateStatusRecorded(1, status, note)
    \/ \E note \in LedgerNotes : HistoryRoom(1) /\ AdminAddNote(1, note)

SpecLedger == Init /\ [][NextLedger]_vars

(***************************************************************************)
(* Specification of the cart: one validation or one checkout request       *)
(* against a catalog drawn from CartCatalogs                               *)
(***************************************************************************)
\* 10.00, 30.00 and two prices that are not whole cents: 49.996, 10.054
CartPrices == {10 * Unit, 30 * Unit, 49996 * 100, 10054 * 100}

CartCatalogs ==
    {[p \in ProductIds |->
        IF p = 1
        THEN Product(TRUE, "Classic", price, <<Variant("S", "red", stock)>>)
        ELSE IF second = "missing" THEN NoProduct
        ELSE Product(second = "active", "Glitter", 30 * Unit,
                     <<Variant("S", "red", MaxQuantity)>>)] :
     price \in CartPrices, stock \in {1, MaxQuantity},
     second \in {"missing", "inactive", "active"}}

\* lines on the stocked variant of product 1 in the quantities 1, 2 and 10
\* and in the quantities 0 and 11 that the validator rejects, a line on a
\* design product 1 does not have, lines on product 2, and a line whose
\* client fields claim another price and title
CartLines ==
    {CartLine(1, "S", "red", q, 0, "") : q \in {0, 1, 2, MaxQuantity, MaxQuantity + 1}}
        \cup {CartLine(1, "S", "blue", 1, 0, "")}
        \cup {CartLine(2, "S", "red", q, 0, "") : q \in {1, MaxQuantity}}
        \cup {CartLine(1, "S", "red", 1, 1000, "Free")}

CartInputs == Carts(CartLines, MaxCartLen)

InitCart ==
    /\ products \in CartCatalogs
    /\ orders = <<>>
    /\ procs = [slot \in Procs |-> Idle]
    /\ req = NoRequest
    /\ resp = Reply(0, "")
    /\ decs = <<>>

NextCart ==
    \/ \E items \in CartInputs : req = NoRequest /\ Validate(items)
    \/ \E items \in CartInputs, stripeOk \in BOOLEAN :
          req = NoRequest /\ Checkout("alice", items, stripeOk)

SpecCart == InitCart /\ [][NextCart]_vars

(***************************************************************************)
(* Specification of concurrent reconciliation: two orders on the variant   *)
(* of product 1, their checkout-session-completed handlers interleaved     *)
(***************************************************************************)
RaceLines == {CartLine(1, "S", "red", q, 0, "") : q \in 1..MaxQty}

RaceCarts == {<<line>> : line \in RaceLines}

InitRace ==
    /\ products \in {Catalog(stock, 1) : stock \in 0..MaxStock}
    /\ orders = <<>>
    /\ procs = [slot \in Procs |-> Idle]
    /\ req = NoRequest
    /\ resp = Reply(0, "")
    /\ decs = <<>>

NextRace ==
    \/ \E items \in RaceCarts :
          Len(orders) < Cardinality(OrderIds) /\ Checkout("alice", items, TRUE)
    \/ \E slot \in Procs, id \in OrderIds : CheckoutCompletedBegin(slot, id)
    \/ \E slot \in Procs : ReadProduct(slot)
    \/ \E slot \in Procs : WriteProduct(slot)

SpecRace == InitRace /\ [][NextRace]_vars

\* the same two handlers against the full stock of the seeded catalog
SpecPair == Init /\ [][NextRace]_vars

(***************************************************************************)
(* Properties                                                              *)
(***************************************************************************)
StoredOrders == 1..Len(orders)

\* C1: for every order and every sequence of webhook deliveries, each line
\* item's quantity is subtracted from its variant's stock at most once.
C1_StockDecrementedAtMostOnce ==
    \A id \in 1..Len(decs) :
        \A i \in DOMAIN decs[id].lines : decs[id].lines[i] <= 1

\* C2: in every reachable state, under any interleaving of concurrently
\* running checkout-session-completed handlers, every variant's stock is a
\* non-negative integer.
C2_StockNeverNegative ==
    \A p \in ProductIds :
        \A k \in 1..Len(products[p].variants) :
            products[p].variants[k].stock \in Nat

\* quantity taken from stock so far by the handlers of order id, over its
\* first n lines
RECURSIVE C2_Taken(_, _)
C2_Taken(id, n) ==
    IF n = 0 THEN 0
    ELSE C2_Taken(id, n - 1) + decs[id].lines[n] * orders[id].items[n].quantity

\* two handlers of different orders have both lowered the stock of the same
\* variant, together by more than the variant ever held
C2_Witness ==
    /\ Len(orders) = 2
    /\ C2_Taken(1, Len(orders[1].items)) > 0
    /\ C2_Taken(2, Len(orders[2].items)) > 0
    /\ C2_Taken(1, Len(orders[1].items)) + C2_Taken(2, Len(orders[2].items))
          > MaxStock

\* C3: a cart validation call, whether it succeeds or fails, leaves every
\* variant's stock and every order unchanged.
C3_ValidationReadOnly ==
    [][\A items \in LifeCarts :
          (req' = Request("validate", "", 0, items) /\ Validate(items)) =>
              products' = products /\ orders' = orders]_vars

\* a validation has succeeded while an order is stored
C3_Witness ==
    /\ req.op = "validate"
    /\ resp.code = 200
    /\ Len(orders) = 1

\* what a client may put in the price and title fields of a line
C4_ClientFields == {<<0, "">>, <<1000, "Free">>}

C4_Tampered(items, fields) ==
    [i \in DOMAIN items |->
        [items[i] EXCEPT !.price = fields[i][1], !.title = fields[i][2]]]

\* C4: validated items and created orders are determined by the catalog and
\* the requested (product, variant, quantity) only: a request that differs
\* from the one answered only in its client-supplied price and title fields
\* gets the same validated cart, and creates the same order.
C4_ClientPriceIgnored ==
    \A fields \in [DOMAIN req.items -> C4_ClientFields] :
        LET twin == C4_Tampered(req.items, fields)
        IN  /\ req.op = "validate" =>
                  ValidateHandler(products, <<>>, twin).resp = resp
            /\ req.op = "checkout" =>
                  \E stripeOk \in BOOLEAN :
                      LET out == CreateCheckoutSession(products, <<>>, req.user,
                                                       twin, stripeOk)
                      IN  out.orders = orders /\ out.resp = resp

\* an order was created from a request whose line claims a price that is
\* not the catalog's
C4_Witness ==
    /\ req.op = "checkout"
    /\ Len(orders) = 1
    /\ \E i \in DOMAIN req.items :
          /\ req.items[i].price # products[req.items[i].productId].price
          /\ orders[1].items[i].price = products[req.items[i].productId].price

\* C5: for every successfully validated cart the returned total equals
\* round2(round2(subtotal) + round2(tax) + round2(shipping)), the sum of the
\* three returned figures.
C5_TotalIsSumOfRounded ==
    (req.op = "validate" /\ resp.code = 200) =>
        resp.total = Round2((resp.subtotal + resp.tax + resp.shipping) * 1000)

\* sum over the first n lines of catalog unit price times quantity
RECURSIVE C6_Sum(_, _)
C6_Sum(items, n) ==
    IF n = 0 THEN 0
    ELSE C6_Sum(items, n - 1) + products[items[n].productId].price * items[n].quantity

C6_OneLine(price, quantity) ==
    /\ Len(req.items) = 1
    /\ products[req.items[1].productId].price = price
    /\ req.items[1].quantity = quantity

C7_LineError(line) ==
    LET product == products[line.productId]
        matching == {k \in 1..Len(product.variants) :
                        /\ product.variants[k].size = line.size
                        /\ product.variants[k].design = line.design}
    IN  IF ~product.exists \/ ~product.active THEN "ProductUnavailable"
        ELSE IF matching = {} THEN "VariantUnavailable"
        ELSE IF \E k \in matching : product.variants[k].stock < line.quantity
        THEN "InsufficientStock"
        ELSE ""

C7_Failing == {i \in DOMAIN req.items : C7_LineError(req.items[i]) # ""}

C7_First == CHOOSE i \in C7_Failing : \A j \in C7_Failing : i <= j

\* C7: validation of a well-formed cart succeeds exactly when every line
\* names an existing active product, a variant with exactly the requested
\* (size, design) and a quantity within that variant's stock; otherwise it
\* fails with the error of the first failing line in cart order (for
\* insufficient stock, reporting the available count), with no items and no
\* totals.
C7_ValidationOutcome ==
    (req.op = "validate" /\ WellFormed(req.items)) =>
        IF C7_Failing = {}
        THEN resp.code = 200 /\ Len(resp.items) = Len(req.items)
        ELSE /\ resp.code = 400
             /\ resp.line = C7_First
             /\ resp.error = C7_LineError(req.items[C7_First])
             /\ resp.error = "InsufficientStock" =>
                   \E k \in 1..Len(products[req.items[C7_First].productId].variants) :
                       LET v == products[req.items[C7_First].productId].variants[k]
                       IN  /\ v.size = req.items[C7_First].size
                           /\ v.design = req.items[C7_First].design
                           /\ resp.available = v.stock
             /\ resp.items = <<>>
             /\ resp.subtotal = 0 /\ resp.tax = 0
             /\ resp.shipping = 0 /\ resp.total = 0

\* two lines that fail for different reasons: the first one's error is the
\* answer
C7_Witness ==
    /\ req.op = "validate"
    /\ Len(req.items) = 2
    /\ WellFormed(req.items)
    /\ C7_LineError(req.items[1]) = "VariantUnavailable"
    /\ C7_LineError(req.items[2]) = "ProductUnavailable"
    /\ resp.error = "VariantUnavailable"

\* the edges of the order status state machine
C8_Edges ==
    {<<"pending", "confirmed">>, <<"confirmed", "processing">>,
     <<"processing", "shipped">>, <<"shipped", "delivered">>,
     <<"pending", "cancelled">>, <<"confirmed", "cancelled">>}

\* C8: every change of an order's status, by any operation, is an edge of
\* pending -> confirmed -> processing -> shipped -> delivered, or a move to
\* cancelled from pending or confirmed.
C8_StatusFollowsStateMachine ==
    [][\A id \in StoredOrders :
          orders'[id].status # orders[id].status =>
              <<orders[id].status, orders'[id].status>> \in C8_Edges]_vars

\* C9: delivered and cancelled are terminal: once an order's status is
\* delivered or cancelled, no operation or webhook event changes it.
C9_TerminalStatusKept ==
    [][\A id \in StoredOrders :
          orders[id].status \in {"delivered", "cancelled"} =>
              orders'[id].status = orders[id].status]_vars

\* C10: a cancellation by the order's user sets the status to cancelled
\* when it is pending or confirmed; for every other status it is rejected
\* with an invalid-transition error and the order is left unchanged.
C10_UserCancellation ==
    [][\A user \in Users, id \in OrderIds :
          (/\ req' = Request("cancel", user, id, <<>>)
           /\ FindOrderOfUser(orders, id, user) # 0
           /\ UserCancel(user, id)) =>
              IF orders[id].status \in {"pending", "confirmed"}
              THEN /\ orders' = [orders EXCEPT ![id].status = "cancelled"]
                   /\ resp'.code = 200
              ELSE /\ orders' = orders
                   /\ resp'.code = 400
                   /\ resp'.error = "InvalidTransition"]_vars

\* the owner's cancellation of a shipped order has been rejected
C10_Witness ==
    /\ req.op = "cancel"
    /\ resp.code = 400
    /\ resp.error = "InvalidTransition"
    /\ FindOrderOfUser(orders, req.order, req.user) # 0
    /\ orders[req.order].status = "shipped"

\* C11: a cancel request by an authenticated user who did not place the
\* order is answered 404 and leaves every order and every product as it
\* was, whatever the order's status.
C11_CancelOwnerOnly ==
    [][\A user \in Users, id \in OrderIds :
          (/\ req' = Request("cancel", user, id, <<>>)
           /\ id \in StoredOrders
           /\ orders[id].user # user
           /\ UserCancel(user, id)) =>
              /\ orders' = orders
              /\ products' = products
              /\ resp' = Reply(404, "NotFound")]_vars

\* a stranger asked to cancel an order that its owner could still cancel
C11_Witness ==
    /\ req.op = "cancel"
    /\ req.order \in StoredOrders
    /\ orders[req.order].user # req.user
    /\ orders[req.order].status \in {"pending", "confirmed"}
    /\ resp = Reply(404, "NotFound")

\* C12: a webhook request whose signature does not verify is answered 400
\* before any handler runs: every order and every product, stock included,
\* is as before, whatever event kind and payload the body carries.
C12_BadSignatureRejected ==
    [][\A kind \in EventKinds, id \in OrderIds :
          StripeWebhook(1, FALSE, kind, id) =>
              /\ orders' = orders
              /\ products' = products
              /\ procs' = procs
              /\ resp'.code = 400]_vars

\* a forged event naming a stored, payable order was turned away
C12_Witness ==
    /\ req.op = "webhook"
    /\ resp = Reply(400, "InvalidSignature")
    /\ StoredOrders # {}
    /\ \A id \in StoredOrders : orders[id].status = "pending"
                                /\ orders[id].sessionId # ""

\* C13: when the payment session cannot be created after checkout has
\* stored the order, the order stays stored with status pending, payment
\* status pending and an empty session id, the caller is answered with a
\* server error, and no product changes.
C13_OrphanOrderOnSessionFailure ==
    [][\A items \in CartInputs :
          (/\ req' = Request("checkout", "alice", 0, items)
           /\ ValidateCart(products, items).code = 200
           /\ Checkout("alice", items, FALSE)) =>
              /\ Len(orders') = Len(orders) + 1
              /\ SubSeq(orders', 1, Len(orders)) = orders
              /\ orders'[Len(orders')].status = "pending"
              /\ orders'[Len(orders')].payStatus = "pending"
              /\ orders'[Len(orders')].sessionId = ""
              /\ orders'[Len(orders')].user = "alice"
              /\ resp'.code = 500
              /\ products' = products]_vars

\* a checkout of a valid cart was answered 500 and left its order behind
C13_Witness ==
    /\ req.op = "checkout"
    /\ resp.code = 500
    /\ ValidateCart(products, req.items).code = 200
    /\ Len(orders) = 1
    /\ orders[1].sessionId = ""
    /\ orders[1].status = "pending"

\* some variant that is there before and after the step has another stock
C14_StockChanged ==
    \E p \in ProductIds :
        \E k \in 1..Len(products[p].variants) :
            /\ k <= Len(products'[p].variants)
            /\ products'[p].variants[k].stock # products[p].variants[k].stock

\* C14: stock is changed by the checkout-session-completed handler alone:
\* add-to-cart, cart validation, checkout creation, the payment-intent
\* handlers, the admin order status update, the user cancellation and the
\* admin product update change no variant's stock.
C14_StockChangedByReconcilerOnly ==
    [][C14_StockChanged => \E slot \in Procs : WriteProduct(slot)]_vars

\* C14, amended: a variant's stock is changed only by the
\* checkout-session-completed handler and by an admin product update whose
\* form carries a variants field; add-to-cart, cart validation, checkout
\* creation, the payment-intent handlers, the admin order status update and
\* the user cancellation change no variant's stock.
C14_StockChangedByReconcilerOrAdmin ==
    [][C14_StockChanged =>
          \/ \E slot \in Procs : WriteProduct(slot)
          \/ \E price \in OfficePrices :
                AdminUpdateProduct(1, "Classic", price, TRUE, TRUE,
                                   <<Variant("S", "red", MaxStock)>>)]_vars

\* the handler took a line out of stock and the admin then put the stock
\* back to what it was
C14_Witness ==
    /\ req.op = "product"
    /\ resp.code = 200
    /\ StoredOrders # {}
    /\ orders[1].items[1].product = 1
    /\ decs[1].lines[1] >= 1
    /\ procs[1].pc = "idle"
    /\ products[1].variants[1].stock = MaxStock

\* C15: checkouts are not serialised against stock.  A checkout stores an
\* order exactly when its cart validates against the stock of that moment,
\* whatever the orders already stored ask for, and it leaves the stock as it
\* was; so two checkouts of one variant whose quantities together exceed
\* the stock can both store an order.
C15_CheckoutNotSerialised ==
    [][(req'.op = "checkout" /\ procs' = procs) =>
          /\ products' = products
          /\ Len(orders') = Len(orders) + 1
                <=> ValidateCart(products, req'.items).code = 200
          /\ Len(orders') \in {Len(orders), Len(orders) + 1}]_vars

\* two orders for one variant, asking together for more than the variant
\* ever had, both confirmed and paid
C15_Witness ==
    /\ Len(orders) = 2
    /\ orders[1].items[1].product = orders[2].items[1].product
    /\ orders[1].items[1].size = orders[2].items[1].size
    /\ orders[1].items[1].design = orders[2].items[1].design
    /\ orders[1].items[1].quantity + orders[2].items[1].quantity > MaxStock
    /\ \A id \in StoredOrders : /\ orders[id].status = "confirmed"
                                /\ orders[id].payStatus = "paid"
    /\ \A slot \in Procs : procs[slot].pc = "idle"

\* what checkout copies into the order
C16_Snapshot(order) ==
    <<order.items, order.subtotal, order.tax, order.shipping, order.total>>

\* C16: the line-item snapshots of a stored order and its subtotal, tax,
\* shipping and total stay what checkout made them: no product edit or
\* deletion, webhook event, admin status update or user cancellation
\* changes them.
C16_SnapshotFrozen ==
    [][\A id \in StoredOrders :
          /\ id \in 1..Len(orders')
          /\ C16_Snapshot(orders'[id]) = C16_Snapshot(orders[id])]_vars

\* a paid and then cancelled order keeps a line at the price of the
\* checkout although the catalog price has since been edited, or the
\* product deleted
C16_Witness ==
    /\ Len(orders) = 1
    /\ orders[1].payStatus = "paid"
    /\ orders[1].status = "cancelled"
    /\ \E i \in 1..Len(orders[1].items) :
          /\ orders[1].items[i].product = 1
          /\ orders[1].items[i].price # products[1].price
    /\ ~products[2].exists

\* the catalog has the line's variant with at least the line's quantity
C17_InStock(item) ==
    /\ products[item.product].exists
    /\ \E k \in 1..Len(products[item.product].variants) :
          /\ products[item.product].variants[k].size = item.size
          /\ products[item.product].variants[k].design = item.design
          /\ products[item.product].variants[k].stock >= item.quantity

\* the catalog after the step is the one before with the quantity of the
\* line taken from the first variant of the line's size and design
C17_Subtracted(item) ==
    \E k \in 1..Len(products[item.product].variants) :
        /\ products[item.product].variants[k].size = item.size
        /\ products[item.product].variants[k].design = item.design
        /\ \A j \in 1..(k - 1) :
              \/ products[item.product].variants[j].size # item.size
              \/ products[item.product].variants[j].design # item.design
        /\ products' = [products EXCEPT ![item.product].variants[k].stock =
                                            @ - item.quantity]

\* the handler goes on with the line after this one, or answers when this
\* was the last
C17_GoesOn(proc) ==
    IF proc.line < Len(orders[proc.order].items)
    THEN /\ procs'[1].pc = "read"
         /\ procs'[1].order = proc.order
         /\ procs'[1].line = proc.line + 1
    ELSE /\ procs'[1].pc = "idle"
         /\ resp' = Reply(200, "")

\* C17: for a stored order, the checkout-session-completed handler sets the
\* payment status to paid, records the payment reference and sets the
\* status to confirmed; then it takes the lines one by one, and for each
\* either lowers the stock of the line's variant by exactly the line's
\* quantity (the variant exists with at least that stock) or leaves all
\* stock as it is, and in both cases goes on with the next line.
C17_CheckoutSessionCompleted ==
    [][/\ (procs[1].pc = "idle" /\ procs'[1].pc = "read") =>
             /\ procs'[1].order \in StoredOrders
             /\ procs'[1].line = 1
             /\ orders' = [orders EXCEPT
                              ![procs'[1].order].payStatus = "paid",
                              ![procs'[1].order].paymentIntent = procs'[1].order,
                              ![procs'[1].order].status = "confirmed"]
             /\ products' = products
       /\ (procs[1].pc = "read" /\ procs' # procs) =>
             LET item == orders[procs[1].order].items[procs[1].line]
             IN  /\ products' = products
                 /\ orders' = orders
                 /\ IF C17_InStock(item)
                    THEN /\ procs'[1].pc = "write"
                         /\ procs'[1].line = procs[1].line
                    ELSE C17_GoesOn(procs[1])
       /\ (procs[1].pc = "write" /\ procs' # procs) =>
             LET item == orders[procs[1].order].items[procs[1].line]
             IN  /\ C17_InStock(item)
                 /\ C17_Subtracted(item)
                 /\ orders' = orders
                 /\ C17_GoesOn(procs[1])]_vars

\* the second delivery for a two-line order found the first line's variant
\* out of stock, skipped it, lowered the second line's stock and left the
\* order confirmed and paid
C17_Witness ==
    /\ Len(orders) = 1
    /\ Len(orders[1].items) = 2
    /\ procs[1].pc = "idle"
    /\ decs[1].deliveries = 2
    /\ decs[1].lines = <<1, 2>>
    /\ products[orders[1].items[1].product].variants[1].stock = 0
    /\ products[orders[1].items[2].product].variants[1].stock = MaxStock - 2
    /\ orders[1].status = "confirmed"
    /\ orders[1].payStatus = "paid"
    /\ orders[1].paymentIntent # 0

\* the stored orders that carry this payment reference
C18_Matching(pi) == {id \in StoredOrders : orders[id].paymentIntent = pi}

\* C18: a payment-intent-succeeded event for a matching order sets the
\* order's payment status to paid and moves its status from pending to
\* confirmed; any other status is left as it is, and nothing else changes.
C18_PaymentSucceededConfirmsPendingOnly ==
    [][\A pi \in OrderIds :
          (PaymentSucceeded(pi) /\ C18_Matching(pi) # {}) =>
              /\ \E id \in C18_Matching(pi) :
                    orders' = [orders EXCEPT
                                  ![id].payStatus = "paid",
                                  ![id].status = IF orders[id].status = "pending"
                                                 THEN "confirmed"
                                                 ELSE orders[id].status]
              /\ products' = products]_vars

\* the event came for an order that was already cancelled: it is paid again
\* and still cancelled
C18_Witness ==
    /\ req.op = "payment_intent.succeeded"
    /\ C18_Matching(req.order) # {}
    /\ \A id \in C18_Matching(req.order) :
          /\ orders[id].status = "cancelled"
          /\ orders[id].payStatus = "paid"
    /\ resp = Reply(200, "")

\* C19: a payment-intent-failed event for a matching order sets the order's
\* payment status to failed and its status to cancelled whatever they were
\* (shipped, delivered and already paid included), and changes no stock.
C19_PaymentFailedCancelsAlways ==
    [][\A pi \in OrderIds :
          (/\ PaymentFailed(pi)
           /\ \E id \in StoredOrders : orders[id].paymentIntent = pi) =>
              /\ \E id \in StoredOrders :
                    /\ orders[id].paymentIntent = pi
                    /\ orders' = [orders EXCEPT ![id].payStatus = "failed",
                                                ![id].status = "cancelled"]
              /\ products' = products]_vars

\* the event came for an order whose line had already been taken out of
\* stock: the order is cancelled and failed, the stock stays lowered
C19_Witness ==
    /\ req.op = "payment_intent.payment_failed"
    /\ Len(orders) = 1
    /\ orders[1].paymentIntent = req.order
    /\ orders[1].status = "cancelled"
    /\ orders[1].payStatus = "failed"
    /\ Len(orders[1].items) = 1
    /\ decs[1].lines[1] = 1
    /\ procs[1].pc = "idle"
    /\ products[1].variants[1].stock = MaxStock - orders[1].items[1].quantity

\* C20: a correctly signed checkout-session-completed event whose metadata
\* names no stored order changes no order and no stock, starts no stock
\* loop, and is still answered {received: true}.
C20_UnknownOrderIsNoOp ==
    [][\A id \in OrderIds \ StoredOrders :
          StripeWebhook(1, TRUE, "checkout.session.completed", id) =>
              /\ orders' = orders
              /\ products' = products
              /\ procs' = procs
              /\ resp' = Reply(200, "")]_vars

\* the event named an order that is not there while another order was
\* waiting for its payment: it was received and that order still waits
C20_Witness ==
    /\ req.op = "checkout.session.completed"
    /\ req.order \notin StoredOrders
    /\ resp = Reply(200, "")
    /\ Len(orders) = 1
    /\ orders[1].status = "pending"
    /\ orders[1].payStatus = "pending"
    /\ orders[1].sessionId # ""
    /\ products = Catalog(MaxStock, 1)

\* status and payment status of every order
C21_Status(ords) ==
    [id \in 1..Len(ords) |-> <<ords[id].status, ords[id].payStatus>>]

\* C21: each of the three webhook handlers is idempotent on status and
\* payment status: once a handler has processed an event, processing the
\* same event again right away leaves every order's status and payment
\* status as the first delivery left them.
C21_HandlersIdempotentOnStatus ==
    [][\A id \in OrderIds :
          /\ (procs[1].pc = "idle" /\ CheckoutCompletedBegin(1, id)) =>
                C21_Status(CheckoutSessionCompletedSave(orders', id, id))
                    = C21_Status(orders')
          /\ PaymentSucceeded(id) =>
                C21_Status(PaymentIntentSucceeded(orders', id))
                    = C21_Status(orders')
          /\ PaymentFailed(id) =>
                C21_Status(PaymentIntentFailed(orders', id))
                    = C21_Status(orders')]_vars

\* the second delivery of checkout-session-completed has just saved the
\* order, which is confirmed and paid as after the first
C21_Witness ==
    /\ Len(orders) = 1
    /\ decs[1].deliveries = 2
    /\ procs[1].pc = "read"
    /\ procs[1].line = 1
    /\ orders[1].status = "confirmed"
    /\ orders[1].payStatus = "paid"

\* C22: when the cart does not validate inside checkout creation (product
\* or variant unavailable, stock insufficient, items malformed), the
\* request is answered 400 with the validator's error and nothing is
\* written: no order, no stock, and the answer does not depend on the
\* payment processor.
C22_FailedCheckoutWritesNothing ==
    [][\A items \in CartInputs, stripeOk \in BOOLEAN :
          (/\ req' = Request("checkout", "alice", 0, items)
           /\ ValidateCart(products, items).code # 200
           /\ Checkout("alice", items, stripeOk)) =>
              /\ orders' = orders
              /\ products' = products
              /\ decs' = decs
              /\ resp'.code = 400
              /\ resp'.error = ValidateCart(products, items).error
              /\ resp'.error \in {"ValidationFailed", "ProductUnavailable",
                                  "VariantUnavailable", "InsufficientStock"}
              /\ resp' = CreateCheckoutSession(products, orders, "alice",
                                               items, ~stripeOk).resp]_vars

\* a checkout asking for more than the stock was refused and stored nothing
C22_Witness ==
    /\ req.op = "checkout"
    /\ resp.code = 400
    /\ resp.error = "InsufficientStock"
    /\ resp.available < req.items[resp.line].quantity
    /\ orders = <<>>

C23_Requested == Statuses \cup {"refunded"}

\* what an admin status update of a stored order does when the route
\* accepts exactly the values in accepted
C23_Accepts(accepted) ==
    \A id \in OrderIds, status \in C23_Requested :
        (/\ req' = Request("status", "admin", id, <<>>)
         /\ id \in StoredOrders
         /\ AdminUpdateStatus(id, status)) =>
            IF status \in accepted
            THEN /\ orders' = [orders EXCEPT ![id].status = status]
                 /\ resp'.code = 200
            ELSE /\ orders' = orders
                 /\ resp'.code = 400
                 /\ resp'.error = "ValidationFailed"

\* C23: the admin order status update accepts exactly confirmed,
\* processing, shipped, delivered and cancelled, from any current status,
\* and rejects every other value, pending included, with a validation error
\* that leaves the order unchanged.
C23_AdminStatusFiveValues ==
    [][C23_Accepts({"confirmed", "processing", "shipped", "delivered",
                    "cancelled"})]_vars

\* C23, amended: the admin order status update accepts exactly pending,
\* confirmed, processing, shipped, delivered and cancelled, from any current
\* status, and rejects every other value with a validation error that
\* leaves the order unchanged.
C23_AdminStatusSixValues ==
    [][C23_Accepts({"pending", "confirmed", "processing", "shipped",
                    "delivered", "cancelled"})]_vars

\* the admin has put a paid order back to pending
C23_Witness ==
    /\ req.op = "status"
    /\ resp.code = 200
    /\ req.order \in StoredOrders
    /\ orders[req.order].status = "pending"
    /\ orders[req.order].payStatus = "paid"

\* C25: a correctly signed webhook event is answered {received: true} when
\* its processing succeeds and 500 when its processing fails inside a
\* handler, as when the storage rejects the load of the order.  The failed
\* deliveries looked at are those of a payment-intent-failed event that
\* would have changed a stored order.
C25_WebhookAnswers ==
    [][/\ (PaymentFailed(1) /\ orders' # orders) => resp' = Reply(200, "")
       /\ (/\ HandlerError("payment_intent.payment_failed", 1)
           /\ PaymentIntentFailed(orders, 1) # orders) =>
              resp'.code = 500]_vars

\* C26: no update is lost between concurrent reconciliations.  Starting
\* from a stock of MaxStock, once the checkout-session-completed handlers of
\* two orders for the same variant, whose quantities the stock covers
\* together, have each run once and returned, the stock is MaxStock less
\* both quantities.
C26_NoLostUpdate ==
    (/\ Len(orders) = 2
     /\ orders[1].items[1].quantity + orders[2].items[1].quantity <= MaxStock
     /\ \A id \in StoredOrders : decs[id].deliveries = 1
     /\ \A slot \in Procs : procs[slot].pc = "idle") =>
        products[1].variants[1].stock =
            MaxStock - orders[1].items[1].quantity - orders[2].items[1].quantity

\* C27: the payment-intent handlers act on an order only after a
\* checkout-session-completed event for that order has been processed:
\* a payment-intent-succeeded or payment-intent-failed event changes no
\* order that the checkout-session-completed handler has not yet saved as
\* paid, so it cannot cancel an order that was never marked paid.
C27_PaymentIntentAfterCheckoutCompleted ==
    [][\A pi \in OrderIds :
          (PaymentSucceeded(pi) \/ PaymentFailed(pi)) =>
              \A id \in StoredOrders :
                  orders'[id] # orders[id] => decs[id].deliveries >= 1]_vars

\* the payment-intent-failed event of an order's payment came before the
\* checkout-session-completed event: the order still waits, unpaid
C27_Witness ==
    /\ req = Request("payment_intent.payment_failed", "", 1, <<>>)
    /\ resp = Reply(200, "")
    /\ Len(orders) = 1
    /\ decs[1].deliveries = 0
    /\ orders[1].sessionId # ""
    /\ orders[1].status = "pending"
    /\ orders[1].payStatus = "pending"
    /\ orders[1].paymentIntent = 0

RECURSIVE C28_Amount(_, _)
\* what the processor charges for the first n line items
C28_Amount(lineItems, n) ==
    IF n = 0 THEN 0
    ELSE C28_Amount(lineItems, n - 1)
         + lineItems[n].unit_amount * lineItems[n].quantity

\* C28: the amount requested from the payment processor equals the order
\* total: for every checkout that stores an order, the sum over the
\* processor line items of unit_amount times quantity is the order's total
\* in cents.
C28_RequestedAmountIsTotal ==
    (req.op = "checkout" /\ Len(orders) = 1) =>
        LET lineItems == StripeLineItems(orders[1])
        IN  C28_Amount(lineItems, Len(lineItems)) = orders[1].total

RECURSIVE C29_Asked(_, _, _, _)
\* the quantity the first n lines ask of the variant v of product p
C29_Asked(items, n, p, v) ==
    IF n = 0 THEN 0
    ELSE C29_Asked(items, n - 1, p, v)
         + (IF /\ items[n].productId = p
               /\ items[n].size = v.size
               /\ items[n].design = v.design
            THEN items[n].quantity ELSE 0)

\* C29: a cart that validates can be served from stock as a whole: for
\* every variant, the quantities of all the lines that name it, several
\* lines naming the same variant included, together do not exceed the
\* variant's stock at validation time.
C29_ValidCartJointlyInStock ==
    (req.op = "validate" /\ resp.code = 200) =>
        \A p \in ProductIds :
            \A k \in 1..Len(products[p].variants) :
                C29_Asked(req.items, Len(req.items), p, products[p].variants[k])
                    <= products[p].variants[k].stock

\* C30: a successful user cancellation changes the order's status and
\* nothing else: payment status, payment reference, session id, line items
\* and totals of the order, every other order, and every product with its
\* stock are as before.
C30_CancellationChangesStatusOnly ==
    [][\A user \in Users, id \in OrderIds :
          (/\ req' = Request("cancel", user, id, <<>>)
           /\ resp'.code = 200
           /\ UserCancel(user, id)) =>
              /\ id \in StoredOrders
              /\ Len(orders') = Len(orders)
              /\ \A other \in StoredOrders \ {id} : orders'[other] = orders[other]
              /\ orders'[id].status = "cancelled"
              /\ [orders'[id] EXCEPT !.status = orders[id].status] = orders[id]
              /\ products' = products
              /\ procs' = procs]_vars

\* the owner cancelled an order that was paid and whose line had been taken
\* out of stock: it is cancelled, still paid, and the stock is still lowered
C30_Witness ==
    /\ req.op = "cancel"
    /\ resp.code = 200
    /\ Len(orders) = 1
    /\ req.order = 1
    /\ orders[1].status = "cancelled"
    /\ orders[1].payStatus = "paid"
    /\ orders[1].paymentIntent # 0
    /\ Len(orders[1].items) = 1
    /\ decs[1].lines[1] = 1
    /\ procs[1].pc = "idle"
    /\ products[1].variants[1].stock = MaxStock - orders[1].items[1].quantity


====
